---- MODULE Spec2Model ----
(***************************************************************************)
(* Model of the clause-analysis pipeline of legal_analyzer.py and of the   *)
(* clause detail loop of streamlit_app.py.                                 *)
(*                                                                         *)
(* A Python str is a sequence of one-character strings, so that lower(),   *)
(* slicing, strip(), substring containment and the regular expression of   *)
(* split_into_clauses are computed character by character.                 *)
(***************************************************************************)
EXTENDS Integers, Sequences, FiniteSets, TLC

\* ------------------------------------------------------------------ str

UpperChars ==
    {"A","B","C","D","E","F","G","H","I","J","K","L","M",
     "N","O","P","Q","R","S","T","U","V","W","X","Y","Z"}

DigitChars == {"0","1","2","3","4","5","6","7","8","9"}

SpaceChars == {" ", "\n", "\t"}

\* str.lower() on one character
LowerChar(c) ==
    CASE c = "A" -> "a" [] c = "B" -> "b" [] c = "C" -> "c" [] c = "D" -> "d"
      [] c = "E" -> "e" [] c = "F" -> "f" [] c = "G" -> "g" [] c = "H" -> "h"
      [] c = "I" -> "i" [] c = "J" -> "j" [] c = "K" -> "k" [] c = "L" -> "l"
      [] c = "M" -> "m" [] c = "N" -> "n" [] c = "O" -> "o" [] c = "P" -> "p"
      [] c = "Q" -> "q" [] c = "R" -> "r" [] c = "S" -> "s" [] c = "T" -> "t"
      [] c = "U" -> "u" [] c = "V" -> "v" [] c = "W" -> "w" [] c = "X" -> "x"
      [] c = "Y" -> "y" [] c = "Z" -> "z" [] OTHER -> c

\* str.lower()
Lower(s) == [k \in 1..Len(s) |-> LowerChar(s[k])]

\* the slice s[a-1:b] of Python, 1-based and inclusive here
Slice(s, a, b) == IF a > b THEN <<>> ELSE SubSeq(s, a, b)

\* kw in s
Contains(s, kw) ==
    \E p \in 1..(Len(s) - Len(kw) + 1) : SubSeq(s, p, p + Len(kw) - 1) = kw

\* str.strip(): whitespace removed at both ends
Strip(s) ==
    LET keep == {k \in 1..Len(s) : s[k] \notin SpaceChars}
    IN  IF keep = {} THEN <<>>
        ELSE LET lo == CHOOSE k \in keep : \A m \in keep : k <= m
                 hi == CHOOSE k \in keep : \A m \in keep : m <= k
             IN  SubSeq(s, lo, hi)

\* ---------------------------------------------------- split_into_clauses

\* (?<=\.)\s+(?=[A-Z]) matched at p: the end of the match, 0 if none.  \s+ is
\* greedy, so the longest run of whitespace that an upper-case letter follows.
SentenceEnd(s, p) ==
    LET ends == {e \in p..(Len(s) - 1) :
                    /\ s[e + 1] \in UpperChars
                    /\ \A k \in p..e : s[k] \in SpaceChars}
    IN  IF p > 1 /\ s[p - 1] = "." /\ s[p] \in SpaceChars /\ ends # {}
        THEN CHOOSE e \in ends : \A f \in ends : f <= e
        ELSE 0

\* \n matched at p
NewlineEnd(s, p) == IF s[p] = "\n" THEN p ELSE 0

\* \d+\.\s+ matched at p: digits, a period, then the longest run of whitespace
EnumEnd(s, p) ==
    LET ends == {e \in (p + 2)..Len(s) :
                    /\ s[e] \in SpaceChars
                    /\ \E d \in p..(e - 2) :
                           /\ s[d + 1] = "."
                           /\ \A k \in p..d : s[k] \in DigitChars
                           /\ \A k \in (d + 2)..e : s[k] \in SpaceChars}
    IN  IF s[p] \in DigitChars /\ ends # {}
        THEN CHOOSE e \in ends : \A f \in ends : f <= e
        ELSE 0

\* the alternation, tried in the order written, at position p
MatchEnd(s, p) ==
    IF SentenceEnd(s, p) # 0 THEN SentenceEnd(s, p)
    ELSE IF NewlineEnd(s, p) # 0 THEN NewlineEnd(s, p)
    ELSE EnumEnd(s, p)

\* re.split: the pieces between the leftmost non-overlapping matches
RECURSIVE SplitFrom(_, _)
SplitFrom(s, from) ==
    LET starts == {p \in from..Len(s) : MatchEnd(s, p) # 0}
    IN  IF starts = {} THEN <<Slice(s, from, Len(s))>>
        ELSE LET p == CHOOSE q \in starts : \A r \in starts : q <= r
             IN  <<Slice(s, from, p - 1)>> \o SplitFrom(s, MatchEnd(s, p) + 1)

split_into_clauses(text) == SplitFrom(Strip(text), 1)

\* ------------------------------------------------------- keyword tables

kw_shall == <<"s","h","a","l","l">>
kw_must == <<"m","u","s","t">>
kw_agree_to == <<"a","g","r","e","e"," ","t","o">>
kw_reserves_the_right ==
    <<"r","e","s","e","r","v","e","s"," ","t","h","e"," ","r","i","g","h","t">>
kw_may == <<"m","a","y">>
kw_confidential == <<"c","o","n","f","i","d","e","n","t","i","a","l">>
kw_non_disclosure == <<"n","o","n","-","d","i","s","c","l","o","s","u","r","e">>
kw_liable == <<"l","i","a","b","l","e">>
kw_indemnify == <<"i","n","d","e","m","n","i","f","y">>
kw_at_your_own_risk ==
    <<"a","t"," ","y","o","u","r"," ","o","w","n"," ","r","i","s","k">>
kw_terminate == <<"t","e","r","m","i","n","a","t","e">>
kw_breach == <<"b","r","e","a","c","h">>

\* the dict clause_keywords, in insertion order (the order .items() yields)
clause_keywords ==
    << [category |-> "Obligation",
        keywords |-> <<kw_shall, kw_must, kw_agree_to>>],
       [category |-> "Rights",
        keywords |-> <<kw_reserves_the_right, kw_may>>],
       [category |-> "Confidentiality",
        keywords |-> <<kw_confidential, kw_non_disclosure>>],
       [category |-> "Risk",
        keywords |-> <<kw_liable, kw_indemnify, kw_at_your_own_risk>>] >>

boilerplate_templates ==
    << <<"T","h","i","s"," ","A","g","r","e","e","m","e","n","t"," ","s","h",
      "a","l","l"," ","b","e"," ","g","o","v","e","r","n","e","d"," ","b","y",
      " ","t","h","e"," ","l","a","w","s"," ","o","f"," ","t","h","e"," ","S",
      "t","a","t","e"," ","o","f">>,
       <<"T","h","e"," ","p","a","r","t","i","e","s"," ","a","g","r","e","e",
         " ","t","o"," ","t","h","e"," ","f","o","l","l","o","w","i","n","g",
         " ","t","e","r","m","s"," ","a","n","d"," ","c","o","n","d","i","t",
         "i","o","n","s">> >>

\* -------------------------------------------------------- classify_clause

\* a variant that compares the clause as written, upper case included
ClassifyCaseSensitive(clause, c, k) ==
    Contains(clause, clause_keywords[c].keywords[k])

\* kw.lower() in clause.lower(), for keyword k of category c
KeywordHit(clause, c, k) ==
    Contains(Lower(clause), Lower(clause_keywords[c].keywords[k]))

\* the two nested for loops, from category c and keyword k on
RECURSIVE ClassifyFrom(_, _, _)
ClassifyFrom(clause, c, k) ==
    IF c > Len(clause_keywords) THEN "Other"
    ELSE IF k > Len(clause_keywords[c].keywords) THEN ClassifyFrom(clause, c + 1, 1)
    ELSE IF KeywordHit(clause, c, k) THEN clause_keywords[c].category
    ELSE ClassifyFrom(clause, c, k + 1)

classify_clause(clause) == ClassifyFrom(clause, 1, 1)

\* ----------------------------------------------------------- grade_clause

risk_keywords == <<kw_liable, kw_indemnify, kw_terminate, kw_breach>>

\* a variant of the generator that counts every occurrence of the keyword
OccurrencesOf(lowered, kw) ==
    Cardinality({p \in 1..(Len(lowered) - Len(kw) + 1) :
                    SubSeq(lowered, p, p + Len(kw) - 1) = kw})

\* 1 for kw in risk_keywords if kw in clause.lower(): what one keyword adds
RiskTerm(lowered, kw) == IF Contains(lowered, kw) THEN 1 ELSE 0

\* sum(...) over the list, from keyword k on
RECURSIVE ScoreFrom(_, _)
ScoreFrom(lowered, k) ==
    IF k > Len(risk_keywords) THEN 0
    ELSE RiskTerm(lowered, risk_keywords[k]) + ScoreFrom(lowered, k + 1)

\* a variant with > where the code has >= and ==
ImportanceStrict(score) ==
    IF score > 2 THEN "High" ELSE IF score > 1 THEN "Medium" ELSE "Low"

\* "High" if score >= 2 else "Medium" if score == 1 else "Low"
ImportanceOf(score) ==
    IF score >= 2 THEN "High" ELSE IF score = 1 THEN "Medium" ELSE "Low"

grade_clause(clause) ==
    LET score == ScoreFrom(Lower(clause), 1)
    IN  [importance |-> ImportanceOf(score), score |-> score]

\* --------------------------------------------------------- rewrite_clause

SuggestIndemnity == "Consider softening indemnity to mutual responsibility."
SuggestLiability == "Clarify or limit liability language."
SuggestNone == "Clause appears clear."

\* a variant with the two checks in the other order
RewriteLiableFirst(clause) ==
    LET clause_lower == Lower(clause)
    IN  IF Contains(clause_lower, kw_liable) THEN SuggestLiability
        ELSE IF Contains(clause_lower, kw_indemnify) THEN SuggestIndemnity
        ELSE SuggestNone

rewrite_clause(clause) ==
    LET clause_lower == Lower(clause)
    IN  IF Contains(clause_lower, kw_indemnify) THEN SuggestIndemnity
        ELSE IF Contains(clause_lower, kw_liable) THEN SuggestLiability
        ELSE SuggestNone

\* ------------------------------------------------ external collaborators

\* An optional value is a set: {} is None, {v} is the value v.
None == {}
Some(v) == {v}
ValueOf(opt) == CHOOSE v \in opt : TRUE

\* The pretrained pipelines and dateparser are deterministic functions of
\* their argument whose values the program does not control.  An oracle
\* names one such behaviour; a call may also raise.
Oracles == {"steady", "bySize", "byEnding"}

L_POSITIVE == <<"P","O","S","I","T","I","V","E">>
L_NEGATIVE == <<"N","E","G","A","T","I","V","E">>
L_joy == <<"j","o","y">>
L_fear == <<"f","e","a","r">>
L_neutral == <<"n","e","u","t","r","a","l">>

\* the last character, "" for the empty string
LastChar(x) == IF x = <<>> THEN "" ELSE x[Len(x)]

\* sentiment_classifier(text): a list holding one {'label', 'score'} dict
sentiment_classifier(oracle, x) ==
    LET negative ==
            CASE oracle = "steady" -> FALSE
              [] oracle = "bySize" -> Len(x) % 2 = 1
              [] OTHER -> LastChar(x) \in {"e", ".", "y"}
    IN  << [label |-> IF negative THEN L_NEGATIVE ELSE L_POSITIVE] >>

\* emotion_classifier(text) with return_all_scores: a list holding the list of
\* per-label {'label', 'score'} dicts
emotion_classifier(oracle, x) ==
    LET lead ==
            CASE oracle = "steady" -> 1
              [] oracle = "bySize" -> Len(x) % 3
              [] OTHER -> IF LastChar(x) \in {"e", "x", " "} THEN 2 ELSE 0
    IN  << << [label |-> L_joy, score |-> 1 + lead],
              [label |-> L_fear, score |-> 3 - lead],
              [label |-> L_neutral, score |-> 2] >> >>

SampleDate == [year |-> 2024, month |-> 3, day |-> 5]

\* search_dates(clause): None, or a list of (text, datetime) pairs
search_dates(oracle, clause) ==
    LET hits == {k \in 1..Len(clause) : clause[k] \in DigitChars}
    IN  IF oracle = "steady" \/ hits = {} THEN None
        ELSE LET k == CHOOSE h \in hits : \A g \in hits : h <= g
             IN  Some(<< <<Slice(clause, k, k), SampleDate>> >>)

\* ------------------------------------------------------- extract_timeline

DigitOf(d) == <<"0","1","2","3","4","5","6","7","8","9">>[d + 1]

\* the decimal digits of n, zero-padded to at least width characters
RECURSIVE Decimal(_, _)
Decimal(n, width) ==
    IF n < 10 /\ width <= 1 THEN <<DigitOf(n)>>
    ELSE Decimal(n \div 10, width - 1) \o <<DigitOf(n % 10)>>

\* d.strftime("%Y-%m-%d")
strftime(d) ==
    Decimal(d.year, 4) \o <<"-">> \o Decimal(d.month, 2) \o <<"-">> \o Decimal(d.day, 2)

\* the value built from what search_dates returned
extract_timeline(dates) ==
    IF dates = None THEN <<>>
    ELSE LET found == ValueOf(dates)
         IN  [k \in 1..Len(found) |-> <<found[k][1], strftime(found[k][2])>>]

\* ------------------------------------------------------ detect_boilerplate

MinOf(a, b) == IF a <= b THEN a ELSE b

\* SequenceMatcher(None, a, b).ratio() is 2*M/T for M matched characters and
\* T = len(a) + len(b): 1 for equal strings, and it exceeds 0.8 only when
\* some M <= min(len(a), len(b)) makes 2*M/T > 0.8.
RatioOutcomes(a, b) ==
    IF a = b THEN {TRUE}
    ELSE IF 10 * MinOf(Len(a), Len(b)) > 4 * (Len(a) + Len(b)) THEN {TRUE, FALSE}
    ELSE {FALSE}

\* the values the for loop can return: True as soon as one ratio exceeds 0.8
detect_boilerplate(clause) ==
    LET per == [t \in 1..Len(boilerplate_templates) |->
                   RatioOutcomes(Lower(clause), Lower(boilerplate_templates[t]))]
    IN  {b \in BOOLEAN :
            \/ b /\ \E t \in DOMAIN per : TRUE \in per[t]
            \/ ~b /\ \A t \in DOMAIN per : FALSE \in per[t]}

\* ------------------------------------------------------------ analyze_tone

TruncLen == 512

\* a variant that hands the whole text on
WholeText(text) == text

\* text[:512]
Truncate(text) == Slice(text, 1, MinOf(Len(text), TruncLen))

\* max(emotion_scores, key=score): the first entry with the largest score
MaxByScore(scores) ==
    LET best == {k \in 1..Len(scores) :
                    \A m \in 1..Len(scores) : scores[m].score <= scores[k].score}
    IN  scores[CHOOSE k \in best : \A m \in best : k <= m]

\* the pair returned when neither classifier raises
analyze_tone(oracle, text) ==
    LET t == Truncate(text)
        sentiment_result == Lower(sentiment_classifier(oracle, t)[1].label)
        emotion_scores == emotion_classifier(oracle, t)[1]
        top_emotion == Lower(MaxByScore(emotion_scores).label)
    IN  <<sentiment_result, top_emotion>>

\* ------------------------------------------------------------- the state

VARIABLES
    oracle,        \* the behaviour of the external collaborators
    text,          \* analyze_document's argument
    clauses,       \* its local clauses
    i,             \* the loop's index, enumerate(clauses, 1)
    results,       \* its local results
    pc,            \* where the call is
    ret,           \* what the caller received: None until the call returns
    failedAt,      \* the index of the clause whose analysis raised, 0 if none
    lastAnalysed,  \* the index of the last clause a per-clause step ran on
    modelCalls,    \* the number of calls made to the two classifiers
    widgetKeys,    \* the keys of the feedback widgets the page created
    fnClause,      \* the argument of a single call of a per-clause function
    fnOp,          \* which function was called on it
    fnOut,         \* what it returned
    toneText,      \* the arguments of two calls of analyze_tone
    tonePc,        \* where each of the two calls is
    toneArg,       \* what each call handed to the two classifiers
    toneRes        \* what each call returned

docVars == <<text, clauses, i, results, pc, ret, failedAt, lastAnalysed,
             modelCalls, widgetKeys>>
fnVars == <<fnClause, fnOp, fnOut>>
toneVars == <<toneText, tonePc, toneArg, toneRes>>
vars == <<oracle, docVars, fnVars, toneVars>>

\* ------------------------------------------------------------- the inputs

MaxSegments == 3
MaxWords == 3
MaxTail == 2

\* all concatenations of at most n members of parts
RECURSIVE Concats(_, _)
Concats(parts, n) ==
    IF n = 0 THEN {<<>>}
    ELSE LET shorter == Concats(parts, n - 1)
         IN  shorter \cup {a \o b : a \in shorter, b \in parts}

Bodies ==
    { <<>>, <<" ">>, <<"A","1">>,
      <<"2","."," ","l","i","a","b","l","e"," ","B","r","e","a","c","h">>,
      <<"m","a","y"," ","I","n","d","e","m","n","i","f","y","."," "," ","A","x">> }

\* documents: up to MaxSegments lines, each a body and its newline
Documents == Concats({b \o <<"\n">> : b \in Bodies}, MaxSegments)

Words ==
    { kw_shall, <<"M","U","S","T">>, kw_agree_to, kw_reserves_the_right, <<"M","a","y">>,
      kw_confidential, kw_non_disclosure, <<"L","i","a","b","l","e">>, kw_indemnify,
      kw_at_your_own_risk, kw_terminate, <<"B","R","E","A","C","H">>, <<"x", " ">> }

\* clause strings: up to MaxWords words
ClauseInputs == Concats(Words, MaxWords)

Filler(n) == [k \in 1..n |-> "x"]

\* texts around the 512-character cut: short ones, and ones whose tail
\* starts at character 512
ToneTexts ==
    {Filler(n) \o tail :
        n \in {0, TruncLen - 1}, tail \in Concats({<<"a">>, <<"e">>}, MaxTail)}

DocIdle ==
    /\ text = <<>> /\ clauses = <<>> /\ i = 0 /\ results = <<>> /\ pc = "idle"
    /\ ret = None /\ failedAt = 0 /\ lastAnalysed = 0 /\ modelCalls = 0
    /\ widgetKeys = <<>>

FnIdle == fnClause = <<>> /\ fnOp = "idle" /\ fnOut = None

ToneIdle ==
    /\ toneText = [r \in {"A", "B"} |-> <<>>]
    /\ tonePc = [r \in {"A", "B"} |-> "idle"]
    /\ toneArg = [r \in {"A", "B"} |-> [sentiment |-> None, emotion |-> None]]
    /\ toneRes = [r \in {"A", "B"} |-> None]

\* -------------------------------------------------------- analyze_document

\* a variant that skips only the entries that are empty as they stand
IsEmptyString(clause) == clause = <<>>

\* a variant that skips nothing
NeverBlank(clause) == FALSE

\* not clause.strip()
IsBlank(clause) == Strip(clause) = <<>>

\* a variant that numbers from 0
ClauseNumZeroBased(idx, res) == idx - 1

\* the value stored under "clause_num": the loop's i
ClauseNum(idx, res) == idx

\* the dict appended for clause number idx
ClauseResult(idx, res, clause, boiler) ==
    LET grade == grade_clause(clause)
        tone == analyze_tone(oracle, clause)
    IN  [clause_num |-> ClauseNum(idx, res),
         clause_text |-> clause,
         category |-> classify_clause(clause),
         importance |-> grade.importance,
         risk_score |-> grade.score,
         dates |-> extract_timeline(search_dates(oracle, clause)),
         boilerplate |-> boiler,
         sentiment |-> tone[1],
         tone |-> tone[2],
         rewrite_suggestion |-> rewrite_clause(clause)]

\* the calls of one iteration that can raise, with the number of classifier
\* calls made once each has raised
RaisePoints == {"search_dates", "sentiment_classifier", "emotion_classifier"}
CallsUntil(point) ==
    CASE point = "search_dates" -> 0
      [] point = "sentiment_classifier" -> 1
      [] OTHER -> 2

Init ==
    /\ oracle \in Oracles
    /\ text \in Documents
    /\ clauses = <<>> /\ i = 0 /\ results = <<>> /\ pc = "call"
    /\ ret = None /\ failedAt = 0 /\ lastAnalysed = 0 /\ modelCalls = 0
    /\ widgetKeys = <<>>
    /\ FnIdle /\ ToneIdle

\* clauses = split_into_clauses(text); results = []
Call ==
    /\ pc = "call"
    /\ clauses' = split_into_clauses(text)
    /\ results' = <<>>
    /\ i' = 1
    /\ pc' = "loop"
    /\ UNCHANGED <<oracle, text, ret, failedAt, lastAnalysed, modelCalls,
                   widgetKeys, fnVars, toneVars>>

\* an iteration that takes the continue
SkipBlank ==
    /\ pc = "loop" /\ i <= Len(clauses)
    /\ IsBlank(clauses[i])
    /\ i' = i + 1
    /\ UNCHANGED <<oracle, text, clauses, results, pc, ret, failedAt,
                   lastAnalysed, modelCalls, widgetKeys, fnVars, toneVars>>

\* an iteration in which every step returns: the dict is appended
Analyse ==
    /\ pc = "loop" /\ i <= Len(clauses)
    /\ ~IsBlank(clauses[i])
    /\ \E boiler \in detect_boilerplate(clauses[i]) :
           results' = Append(results, ClauseResult(i, results, clauses[i], boiler))
    /\ lastAnalysed' = i
    /\ modelCalls' = modelCalls + 2
    /\ i' = i + 1
    /\ UNCHANGED <<oracle, text, clauses, pc, ret, failedAt, widgetKeys,
                   fnVars, toneVars>>

\* a variant in which the loop catches the exception and goes on
CatchAndContinue(point) ==
    /\ failedAt' = i
    /\ lastAnalysed' = i
    /\ modelCalls' = modelCalls + CallsUntil(point)
    /\ i' = i + 1
    /\ UNCHANGED <<oracle, text, clauses, results, pc, ret, widgetKeys,
                   fnVars, toneVars>>

\* nothing in analyze_document catches: the exception leaves the function,
\* and with it the local results
Propagate(point) ==
    /\ failedAt' = i
    /\ lastAnalysed' = i
    /\ modelCalls' = modelCalls + CallsUntil(point)
    /\ pc' = "raised"
    /\ UNCHANGED <<oracle, text, clauses, i, results, ret, widgetKeys,
                   fnVars, toneVars>>

\* an iteration in which an external call raises
AnalyseRaises ==
    /\ pc = "loop" /\ i <= Len(clauses)
    /\ ~IsBlank(clauses[i])
    /\ \E point \in RaisePoints : Propagate(point)

\* return results
Return ==
    /\ pc = "loop" /\ i > Len(clauses)
    /\ ret' = Some(results)
    /\ pc' = "returned"
    /\ UNCHANGED <<oracle, text, clauses, i, results, failedAt, lastAnalysed,
                   modelCalls, widgetKeys, fnVars, toneVars>>

\* ------------------------------------------ streamlit_app: clause detail loop

\* str(n) for n >= 0
Str(n) == Decimal(n, 1)

\* f"feedback_{clause['clause_num']}"
feedback_key(num) == <<"f","e","e","d","b","a","c","k","_">> \o Str(num)

\* the page creates one radio widget per entry of analysis, keyed by feedback_key
Render ==
    /\ pc = "returned"
    /\ LET analysis == ValueOf(ret)
       IN  widgetKeys' = [k \in 1..Len(analysis) |-> feedback_key(analysis[k].clause_num)]
    /\ pc' = "rendered"
    /\ UNCHANGED <<oracle, text, clauses, i, results, ret, failedAt,
                   lastAnalysed, modelCalls, fnVars, toneVars>>

Next == Call \/ SkipBlank \/ Analyse \/ AnalyseRaises \/ Return \/ Render

Spec == Init /\ [][Next]_vars

\* --------------------------------------- one call of a per-clause function

InitFn ==
    /\ oracle = "steady"
    /\ DocIdle
    /\ fnClause \in ClauseInputs /\ fnOp = "none" /\ fnOut = None
    /\ ToneIdle

CallClassify ==
    /\ fnOp = "none"
    /\ fnOp' = "classify_clause"
    /\ fnOut' = Some(classify_clause(fnClause))
    /\ UNCHANGED <<oracle, docVars, fnClause, toneVars>>

CallGrade ==
    /\ fnOp = "none"
    /\ fnOp' = "grade_clause"
    /\ fnOut' = Some(grade_clause(fnClause))
    /\ UNCHANGED <<oracle, docVars, fnClause, toneVars>>

CallRewrite ==
    /\ fnOp = "none"
    /\ fnOp' = "rewrite_clause"
    /\ fnOut' = Some(rewrite_clause(fnClause))
    /\ UNCHANGED <<oracle, docVars, fnClause, toneVars>>

NextFn == CallClassify \/ CallGrade \/ CallRewrite

SpecFn == InitFn /\ [][NextFn]_vars

\* ------------------------------------------------ two calls of analyze_tone

Runs == {"A", "B"}

InitTone ==
    /\ oracle \in Oracles
    /\ DocIdle /\ FnIdle
    /\ toneText \in [Runs -> ToneTexts]
    /\ tonePc = [r \in Runs |-> "call"]
    /\ toneArg = [r \in Runs |-> [sentiment |-> None, emotion |-> None]]
    /\ toneRes = [r \in Runs |-> None]

\* both classifiers answer: the pair is returned
ToneReturns(r) ==
    /\ tonePc[r] = "call"
    /\ toneArg' = [toneArg EXCEPT ![r] = [sentiment |-> Some(Truncate(toneText[r])),
                                           emotion |-> Some(Truncate(toneText[r]))]]
    /\ toneRes' = [toneRes EXCEPT ![r] = Some(analyze_tone(oracle, toneText[r]))]
    /\ tonePc' = [tonePc EXCEPT ![r] = "returned"]
    /\ UNCHANGED <<oracle, docVars, fnVars, toneText>>

\* one of the two classifiers raises, and analyze_tone with it
ToneRaises(r) ==
    /\ tonePc[r] = "call"
    /\ \E point \in {"sentiment_classifier", "emotion_classifier"} :
           toneArg' = [toneArg EXCEPT ![r] =
                          [sentiment |-> Some(Truncate(toneText[r])),
                           emotion |-> IF point = "emotion_classifier"
                                       THEN Some(Truncate(toneText[r])) ELSE None]]
    /\ tonePc' = [tonePc EXCEPT ![r] = "raised"]
    /\ UNCHANGED <<oracle, docVars, fnVars, toneText, toneRes>>

NextTone == \E r \in Runs : ToneReturns(r) \/ ToneRaises(r)

SpecTone == InitTone /\ [][NextTone]_vars

\* ------------------------------------------------------------ properties

\* what the caller of analyze_document received
Output == ValueOf(ret)

\* an entry of the splitter's output that has a character other than whitespace
HasText(entry) == \E k \in 1..Len(entry) : entry[k] \notin SpaceChars

\* C1: the k-th ClauseResult of analyze_document's output carries index k,
\* whatever empty or whitespace-only entries the splitter produced before it.
C1_IndicesContiguousFromOne ==
    ret # None => \A k \in 1..Len(Output) : Output[k].clause_num = k

\* C2: when no step fails, the clause_text fields of the output, in order, are
\* exactly the entries of split_into_clauses(text) that have text, in splitter
\* order: one ClauseResult for each such entry, none for the others.
C2_OneResultPerNonEmptyEntry ==
    ret # None =>
        [k \in 1..Len(Output) |-> Output[k].clause_text]
            = SelectSeq(split_into_clauses(text), HasText)

C2_Witness ==
    /\ ret # None
    /\ Len(Output) >= 2
    /\ \E k \in 1..Len(clauses) : clauses[k] = <<" ">>
    /\ \E k \in 1..Len(clauses) : clauses[k] = <<>>

\* C3: once a per-clause step has failed on a clause, the call has failed as a
\* whole: the caller received no result sequence although the results of the
\* earlier retained clauses had been appended, no step ran on a later clause,
\* and nothing further happens.
C3_FailureAbortsTheCall ==
    failedAt # 0 =>
        /\ pc = "raised"
        /\ ret = None
        /\ Len(results) = Cardinality({j \in 1..(failedAt - 1) : HasText(clauses[j])})
        /\ lastAnalysed = failedAt
        /\ ~ENABLED Next

C3_Witness ==
    /\ pc = "raised"
    /\ Len(results) >= 1
    /\ \E j \in (failedAt + 1)..Len(clauses) : HasText(clauses[j])

\* C4: on the empty string analyze_document raises nothing, runs no per-clause
\* step, calls no external model, and returns the empty sequence.
C4_EmptyDocumentYieldsNothing ==
    text = <<>> =>
        /\ pc # "raised" /\ failedAt = 0
        /\ lastAnalysed = 0 /\ modelCalls = 0
        /\ pc \in {"call", "loop"} => ENABLED (Call \/ SkipBlank \/ Return)
        /\ ret # None => Output = <<>>

C4_Witness == text = <<>> /\ pc = "returned" /\ ret = Some(<<>>)

\* the categories in their declared order
DeclaredOrder == <<"Obligation", "Rights", "Confidentiality", "Risk">>

\* some keyword of the named category is contained, case-insensitively
CategoryHit(clause, name) ==
    \E c \in 1..Len(clause_keywords) :
        /\ clause_keywords[c].category = name
        /\ \E k \in 1..Len(clause_keywords[c].keywords) :
               Contains(Lower(clause), Lower(clause_keywords[c].keywords[k]))

\* C5: classify_clause returns the first category, in the order Obligation,
\* Rights, Confidentiality, Risk, one of whose keywords the clause contains
\* case-insensitively, and "Other" exactly when it contains none of any.
C5_FirstCategoryInOrder ==
    fnOp = "classify_clause" =>
        LET label == ValueOf(fnOut)
            hit == {n \in 1..Len(DeclaredOrder) : CategoryHit(fnClause, DeclaredOrder[n])}
        IN  /\ (label = "Other") <=> (hit = {})
            /\ \A n \in hit : (\A m \in hit : n <= m) => label = DeclaredOrder[n]

C5_Witness ==
    /\ fnOp = "classify_clause"
    /\ CategoryHit(fnClause, "Obligation")
    /\ CategoryHit(fnClause, "Confidentiality")
    /\ ValueOf(fnOut) = "Obligation"

\* C6: grade_clause's score is the number of distinct keywords among liable,
\* indemnify, terminate, breach that the lower-cased clause contains, between
\* 0 and 4, and the importance is High exactly for a score of 2 or more,
\* Medium exactly for 1, Low exactly for 0.
C6_ScoreCountsDistinctKeywords ==
    fnOp = "grade_clause" =>
        LET out == ValueOf(fnOut)
            present == {kw \in {kw_liable, kw_indemnify, kw_terminate, kw_breach} :
                           Contains(Lower(fnClause), kw)}
        IN  /\ out.score = Cardinality(present)
            /\ out.score \in 0..4
            /\ (out.importance = "High") <=> (out.score >= 2)
            /\ (out.importance = "Medium") <=> (out.score = 1)
            /\ (out.importance = "Low") <=> (out.score = 0)

C6_Witness ==
    /\ fnOp = "grade_clause"
    /\ OccurrencesOf(Lower(fnClause), kw_liable) >= 2
    /\ ValueOf(fnOut) = [importance |-> "Medium", score |-> 1]

\* C7: rewrite_clause returns the indemnity suggestion whenever the lower-cased
\* clause contains "indemnify", the liability suggestion exactly when it
\* contains "liable" and not "indemnify", and "Clause appears clear." exactly
\* when it contains neither.
C7_IndemnifyCheckedFirst ==
    fnOp = "rewrite_clause" =>
        LET out == ValueOf(fnOut)
            indemnify == Contains(Lower(fnClause), kw_indemnify)
            liable == Contains(Lower(fnClause), kw_liable)
        IN  /\ indemnify => out = SuggestIndemnity
            /\ (out = SuggestLiability) <=> (liable /\ ~indemnify)
            /\ (out = SuggestNone) <=> (~liable /\ ~indemnify)

C7_Witness ==
    /\ fnOp = "rewrite_clause"
    /\ Contains(Lower(fnClause), kw_indemnify)
    /\ Contains(Lower(fnClause), kw_liable)
    /\ ValueOf(fnOut) = SuggestIndemnity

\* the two texts agree on their first 512 characters
SamePrefix(a, b) ==
    \A k \in 1..TruncLen :
        /\ (k <= Len(a)) = (k <= Len(b))
        /\ k <= Len(a) => a[k] = b[k]

\* C8: each classifier is handed the first 512 characters of the clause and
\* nothing else, so two calls of analyze_tone on clauses that agree on their
\* first 512 characters hand both classifiers the same input and return the
\* same (sentiment, tone) pair.
C8_ToneSeesOnlyThePrefix ==
    /\ \A r \in Runs : \A c \in {"sentiment", "emotion"} :
           toneArg[r][c] # None =>
               /\ Len(ValueOf(toneArg[r][c])) <= TruncLen
               /\ SamePrefix(ValueOf(toneArg[r][c]), toneText[r])
    /\ SamePrefix(toneText["A"], toneText["B"]) =>
           /\ \A c \in {"sentiment", "emotion"} :
                  toneArg["A"][c] # None /\ toneArg["B"][c] # None
                      => toneArg["A"][c] = toneArg["B"][c]
           /\ toneRes["A"] # None /\ toneRes["B"] # None
                  => toneRes["A"] = toneRes["B"]

C8_Witness ==
    /\ tonePc["A"] = "returned" /\ tonePc["B"] = "returned"
    /\ toneText["A"] # toneText["B"]
    /\ Len(toneText["A"]) > TruncLen
    /\ Len(toneText["A"]) = Len(toneText["B"])
    /\ SamePrefix(toneText["A"], toneText["B"])
    /\ toneRes["A"] = toneRes["B"]

\* C9: the clause_num values of an output are strictly increasing, hence
\* pairwise distinct, each between 1 and the number of entries the splitter
\* returned; the feedback widget keys built from them are pairwise distinct.
C9_ClauseNumsIncreaseWithinRange ==
    /\ ret # None =>
           /\ \A k \in 1..Len(Output) :
                  Output[k].clause_num \in 1..Len(split_into_clauses(text))
           /\ \A k, m \in 1..Len(Output) :
                  k < m => Output[k].clause_num < Output[m].clause_num
           /\ \A k, m \in 1..Len(Output) :
                  k # m => Output[k].clause_num # Output[m].clause_num
    /\ pc = "rendered" =>
           /\ Len(widgetKeys) = Len(Output)
           /\ \A k, m \in 1..Len(widgetKeys) : k # m => widgetKeys[k] # widgetKeys[m]

C9_Witness ==
    /\ pc = "rendered"
    /\ Len(widgetKeys) >= 3
    /\ Output[Len(Output)].clause_num > Len(Output)

\* C10: in every ClauseResult, a rewrite suggestion other than "Clause appears
\* clear." comes with a risk_score of at least 1, an importance of Medium or
\* High and a category other than "Other"; an importance of Low comes with
\* "Clause appears clear.".
C10_FieldsAgree ==
    \A k \in 1..Len(results) :
        LET r == results[k]
        IN  /\ r.rewrite_suggestion # SuggestNone =>
                   /\ r.risk_score >= 1
                   /\ r.importance \in {"Medium", "High"}
                   /\ r.category # "Other"
            /\ r.importance = "Low" =>
                   r.rewrite_suggestion \notin {SuggestIndemnity, SuggestLiability}

C10_Witness ==
    /\ ret # None
    /\ \E k \in 1..Len(Output) : Output[k].rewrite_suggestion = SuggestIndemnity
    /\ \E k \in 1..Len(Output) : Output[k].rewrite_suggestion = SuggestLiability
    /\ \E k \in 1..Len(Output) : Output[k].importance = "Low"

====
